---- MODULE Spec2Model ----
(***************************************************************************)
(* A model of nnest/likelihoods.py: the Likelihood base class (loglike,    *)
(* sample), its six concrete variants and the log_gaussian_pdf helper.     *)
(*                                                                         *)
(* Real numbers are fixed-point integers in thousandths (Scale): the       *)
(* point (3.0, 2.0) is <<3000, 2000>>, sigma = 0.1 is 100.  Mixture        *)
(* weights are kept in millionths (WScale) so that the tolerance of        *)
(* np.isclose is representable.  The float specials are the integers NaN,  *)
(* NegInf and PosInf below.                                                *)
(***************************************************************************)
EXTENDS Integers, Sequences, FiniteSets, TLC

Scale == 10 ^ 3
WScale == 10 ^ 6

\* IEEE specials of the float results, outside the range of every finite value.
PosInf == 2 * (2 ^ 30 - 1) + 1
NegInf == -PosInf
NaN == 1 - PosInf

Abs(a) == IF a < 0 THEN -a ELSE a

\* The element of a one-element set.  { e(v) : v \in {arg} } computes arg once
\* however often e uses v, which an operator's parameter does not promise.
Only(S) == CHOOSE v \in S : TRUE

----------------------------------------------------------------------------
(* Fixed-point arithmetic: what the float operators of the source compute,  *)
(* to the thousandth.                                                       *)

\* a * b, rounded to the nearest thousandth; split so that no product overflows.
MulFix(a, b) ==
    Only({ (x \div Scale) * y + (((x % Scale) * y + Scale \div 2) \div Scale) :
           x \in {a}, y \in {b} })

\* a / b for b # 0, rounded to the nearest thousandth.
DivFix(a, b) ==
    Only({ (n \div d) * Scale + (((n % d) * Scale + d \div 2) \div d) :
           n \in {IF b < 0 THEN -a ELSE a}, d \in {Abs(b)} })

\* x ** 2.0
SqFix(a) == Only({ MulFix(x, x) : x \in {a} })

\* The integer square root of n > 0, by Newton's iteration from n.
ISqrt(n) ==
    Only({ LET iter[g \in Nat] ==
                   LET h == (g + m \div g) \div 2
                   IN  IF h >= g THEN g ELSE iter[h]
           IN  iter[m] : m \in {n} })

\* np.sqrt of v >= 0: the floor of sqrt(v / Scale) * Scale.
SqrtFix(v) == Only({ IF w <= 0 THEN 0 ELSE ISqrt(w * Scale) : w \in {v} })

\* The sequence f as an explicit tuple, its elements computed once.
AsSeq(f) == f \o <<>>

\* sum(s)
SumSeq(s) ==
    Only({ LET part[i \in 0..Len(t)] == IF i = 0 THEN 0 ELSE part[i - 1] + t[i]
           IN  part[Len(t)] : t \in {AsSeq(s)} })

\* max(s), s not empty
MaxSeq(s) ==
    Only({ CHOOSE m \in {t[i] : i \in 1..Len(t)} : \A i \in 1..Len(t) : t[i] <= m :
           t \in {AsSeq(s)} })

\* a * b / 10^8, rounded, for 0 <= a, b <= 10^9: the product of two numbers
\* held in units of 10^-8, by halves of four digits.
Mul8(a, b) ==
    Only({ (x \div 10000) * (y \div 10000)
             + (((x \div 10000) * (y % 10000) + (x % 10000) * (y \div 10000)
                 + ((x % 10000) * (y % 10000) + 5000) \div 10000 + 5000) \div 10000) :
           x \in {a}, y \in {b} })

\* The Taylor series of e ** h in units of 10^-8, for h in [0, 1) in the same
\* units.
ExpSeries(h) ==
    Only({ LET rest[a \in Nat \X Nat] ==
                   IF a[2] = 0 THEN 0
                   ELSE a[2] + rest[<<a[1] + 1, (Mul8(a[2], g) + a[1] \div 2) \div a[1]>>]
           IN  rest[<<1, 10 ^ 8>>] : g \in {h} })

\* A float result that may leave the range of the thousandths: m * 10 ^ e
\* thousandths.  e = 0 and m is the number of thousandths (or 0, NaN, PosInf)
\* whenever that fits; else m holds nine significant digits.
Float(m, e) == [m |-> m, e |-> e]

\* e ** x for -745.133 <= x <= 709.782 as M * 10 ** (E - 8), M of nine digits:
\* x = E * ln(10) + g with 0 <= g < ln(10), and e ** g = e ** k * e ** h for
\* the integer part k and the fraction h of g.
ExpDec(x) ==
    Only({ LET E0 == (y * 1000) \div 2302585
               g0 == ((y * 1000) % 2302585) * 100 - (E0 * 93) \div 10
               E == IF g0 < 0 THEN E0 - 1 ELSE IF g0 >= 230258509 THEN E0 + 1 ELSE E0
               g == IF g0 < 0 THEN g0 + 230258509
                    ELSE IF g0 >= 230258509 THEN g0 - 230258509 ELSE g0
               ek == <<100000000, 271828183, 738905610>>[g \div 10 ^ 8 + 1]
           IN  [M |-> Mul8(ExpSeries(g % 10 ^ 8), ek), E |-> E] : y \in {x} })

\* np.exp(x) of a finite x.  A result within the thousandths is rounded up to
\* the next one, so that a positive float is a positive number here too and
\* compares with a draw as the float does.  A double underflows to 0 below
\* -745.133 and overflows to inf above 709.782.
ExpFix(x) ==
    Only({ IF y < -745133 THEN Float(0, 0)
           ELSE IF y > 709782 THEN Float(PosInf, 0)
           ELSE Only({ IF d.E > 5 THEN Float(d.M, d.E - 5)
                       ELSE IF d.E = 5 THEN Float(d.M, 0)
                       ELSE IF d.E < -4 THEN Float(1, 0)
                       ELSE Float((d.M + 10 ^ (5 - d.E) - 1) \div 10 ^ (5 - d.E), 0) :
                       d \in {ExpDec(y)} }) :
           y \in {x} })

\* np.exp(x) of a finite x <= 0 in units of 10^-8, rounded.
Exp8(x) ==
    Only({ IF y < -745133 THEN 0
           ELSE Only({ IF d.E < -9 THEN 0
                       ELSE (d.M + 10 ^ (-d.E) \div 2) \div 10 ^ (-d.E) :
                       d \in {ExpDec(y)} }) :
           y \in {x} })

\* a / b in units of 10^-8 for 0 <= a < b <= 2 * 10^8, digit by digit.
Div8(a, b) ==
    Only({ LET dv[t \in Nat \X Nat \X Nat] ==
                   IF t[1] = 0 THEN t[3]
                   ELSE dv[<<t[1] - 1, (t[2] * 10) % y, t[3] * 10 + (t[2] * 10) \div y>>]
           IN  dv[<<8, x, 0>>] : x \in {a}, y \in {b} })

\* The series atanh(z) = z + z^3 / 3 + z^5 / 5 + ..., z in units of 10^-8.
AtanhSeries(z) ==
    Only({ LET rest[a \in Nat \X Nat] ==
                   IF a[2] = 0 THEN 0
                   ELSE (a[2] + a[1] \div 2) \div a[1] + rest[<<a[1] + 2, Mul8(a[2], w2)>>]
           IN  rest[<<1, w>>] : w \in {z}, w2 \in {Mul8(z, z)} })

\* ln(m) = 2 * atanh((m - 1) / (m + 1)) of a mantissa m in [1, 2), in units of
\* 10^-8.
LnMantissa(m) ==
    Only({ 2 * AtanhSeries(Div8((v - 10 ^ 8) \div 2, (v + 10 ^ 8) \div 2)) : v \in {m} })

\* ln(y / 10^8) of an integer y > 0 in units of 10^-8: y is doubled or halved
\* into [10^8, 2 * 10^8).
LnScaled(y) ==
    LET norm[a \in Nat \X Int] ==
            IF a[1] < 10 ^ 8 THEN norm[<<2 * a[1], a[2] - 1>>]
            ELSE IF a[1] >= 2 * 10 ^ 8 THEN norm[<<a[1] \div 2, a[2] + 1>>]
            ELSE a[2] * 69314718 + LnMantissa(a[1])
    IN  norm[<<y, 0>>]

\* np.log of the float y / 10^digits, digits being 3, 6 or 8: -inf at 0, nan
\* below 0, else the logarithm in units of 10^-8.
Ln8(y, digits) ==
    Only({ IF v < 0 THEN NaN
           ELSE IF v = 0 THEN NegInf
           ELSE LnScaled(v) + (CASE digits = 3 -> 1151292546
                                 [] digits = 6 -> 460517019
                                 [] digits = 8 -> 0) : v \in {y} })

\* A logarithm in units of 10^-8 to the nearest thousandth.
Milli(v) == Only({ IF w \in {NaN, NegInf} THEN w ELSE (w + 50000) \div 100000 : w \in {v} })

\* The Taylor series of cos in ten-thousandths, x2 = x * x in ten-thousandths.
CosSeries(x2, k, term) ==
    Only({ LET rest[a \in Nat \X Int] ==
                   IF a[2] = 0 THEN 0
                   ELSE a[2] + rest[<<a[1] + 2, -((a[2] * w) \div (10000 * a[1] * (a[1] + 1)))>>]
           IN  rest[<<k, term>>] : w \in {x2} })

\* np.cos(x): x is reduced to [0, pi / 2] by the period and the symmetries.
CosFix(x) ==
    Only({ LET b == IF a > 3142 THEN 6283 - a ELSE a
               c == IF b > 1571 THEN 3142 - b ELSE b
               v == CosSeries(((c * 10) * (c * 10)) \div 10000, 1, 10000)
               m == (v + 5) \div 10
           IN  IF b > 1571 THEN -m ELSE m : a \in {Abs(x) % 6283} })

----------------------------------------------------------------------------
(* Values.  A call returns a scalar, an array of scalars, a bound method    *)
(* (an attribute of the base class that is a plain function) or raises.     *)

Ok(v) == [err |-> "none", shape |-> "scalar", val |-> v, vals |-> <<>>]

OkArray(vs) == [err |-> "none", shape |-> "array", val |-> 0, vals |-> vs]

BoundMethod == [err |-> "none", shape |-> "method", val |-> 0, vals |-> <<>>]

Raise(e) == [err |-> e, shape |-> "none", val |-> 0, vals |-> <<>>]

\* [c] * n
Repeat(c, n) == AsSeq([i \in 1..n |-> c])

\* The instance before construction, and the attributes a class does not set.
NoInstance ==
    [kind |-> "none", x_dim |-> 0, corr |-> 0, sigma |-> 0, rshell |-> 0,
     sep |-> 0, weights |-> <<>>, sigmas |-> <<>>, positions |-> <<>>]

----------------------------------------------------------------------------
(* The variants' __call__.  x is a vector of any length: loglike hands an   *)
(* empty list on as an empty vector.                                        *)

\* Rosenbrock.__call__; x[1:] and x[:-1] are empty for Len(x) <= 1.
RosenbrockCall(x) ==
    Ok(-SumSeq([i \in 1..(IF Len(x) = 0 THEN 0 ELSE Len(x) - 1) |->
                  100 * SqFix(x[i + 1] - SqFix(x[i])) + SqFix(Scale - x[i])]))

\* Himmelblau.__call__
HimmelblauCall(x) ==
    IF Len(x) < 2 THEN Raise("IndexError")
    ELSE Ok(- SqFix(SqFix(x[1]) + x[2] - 11 * Scale)
            - SqFix(x[1] + SqFix(x[2]) - 7 * Scale))

\* (1 - c) ** n
PowFix(a, n) ==
    LET pow[i \in Nat] == IF i = 0 THEN Scale ELSE MulFix(a, pow[i - 1])
    IN  pow[n]

\* Gaussian.__call__: the log-density of N(0, cov), cov = eye + corr * (1 - eye),
\* whose determinant is (1 - c)^(d-1) * (1 + (d-1) c) and whose inverse is
\* (I - c / (1 + (d-1) c) * ones) / (1 - c).  scipy refuses a covariance that is
\* not positive definite.  For d = 1 a vector is a column of points; for d > 1
\* it is one point, a vector of one component is broadcast to all d, and any
\* other length cannot be broadcast against the mean.
GaussianCall(l, x) ==
    LET d == l.x_dim
        c == l.corr
        a == Scale - c
        b == Scale + (d - 1) * c
        pt == IF d > 1 /\ Len(x) = 1 THEN Repeat(x[1], d) ELSE x
        s2 == SumSeq([i \in 1..Len(pt) |-> SqFix(pt[i])])
        s1 == SumSeq(pt)
        quad == IF d = 1 THEN s2 ELSE DivFix(s2 - DivFix(MulFix(c, SqFix(s1)), b), a)
        det == MulFix(PowFix(a, d - 1), b)
        logpdf(q) == -((d * 1837877 + (Ln8(det, 3) + 50) \div 100 + q * 1000 + 1000) \div 2000)
    IN  IF d > 1 /\ (a < 0 \/ b < 0) THEN Raise("ValueError")
        ELSE IF d > 1 /\ (a = 0 \/ b = 0) THEN Raise("LinAlgError")
        ELSE IF d = 1 /\ Len(x) # 1 THEN OkArray(AsSeq([i \in 1..Len(x) |-> logpdf(SqFix(x[i]))]))
        ELSE IF Len(pt) # d THEN Raise("ValueError")
        ELSE Ok(logpdf(quad))

\* Eggbox.__call__
EggboxCall(x) ==
    IF Len(x) < 2 THEN Raise("IndexError")
    ELSE LET chi == MulFix(CosFix(DivFix(x[1], 2 * Scale)), CosFix(DivFix(x[2], 2 * Scale)))
         IN  Only({ Ok(MulFix(MulFix(MulFix(MulFix(t, t), t), t), t)) : t \in {2 * Scale + chi} })

\* a / b as numpy divides floats: +-inf or nan on a zero divisor.
DivFloat(a, b) ==
    Only({ IF y # 0 THEN DivFix(x, y)
           ELSE IF x = 0 THEN NaN ELSE IF x > 0 THEN PosInf ELSE NegInf :
           x \in {a}, y \in {b} })

Neg(v) == Only({ IF w = NaN THEN NaN ELSE -w : w \in {v} })

\* GaussianShell.__call__
GaussianShellCall(l, x) ==
    LET rad == SqrtFix(SumSeq([i \in 1..Len(x) |-> SqFix(x[i])]))
    IN  Ok(Neg(DivFloat(SqFix(rad - l.rshell), 2 * SqFix(l.sigma))))

\* log_gaussian_pdf(theta, sigma) with mu = 0 and ndim = len(theta)
log_gaussian_pdf(theta, sigma) ==
    LET ndim == Len(theta)
    IN  Only({ IF q = NaN \/ norm = NaN THEN NaN
               ELSE IF norm = NegInf
                  THEN (IF ndim = 0 THEN NaN ELSE IF q = PosInf THEN NaN ELSE PosInf)
               ELSE IF q = PosInf THEN NegInf
               ELSE -q - (((norm + 50) \div 100) * ndim + 1000) \div 2000 :
               q \in {DivFloat(SumSeq([i \in 1..ndim |-> SqFix(theta[i])]), 2 * SqFix(sigma))},
               norm \in {IF sigma = 0 THEN NegInf
                         ELSE 183787707 + Ln8(sigma * sigma, 6)} })

\* scipy.special.logsumexp: log(sum(exp(a - max(a)))) + max(a); nan if any
\* element is nan, -inf if all are -inf.
logsumexp(a) ==
    Only({ LET fin == {i \in 1..Len(t) : t[i] # NegInf}
           IN  IF \E i \in 1..Len(t) : t[i] = NaN THEN NaN
               ELSE IF amax = PosInf THEN PosInf
               ELSE IF fin = {} THEN NegInf
               ELSE Milli(Ln8(SumSeq([i \in 1..Len(t) |->
                                        IF t[i] = NegInf THEN 0 ELSE Exp8(t[i] - amax)]), 8)) + amax :
           t \in {AsSeq(a)}, amax \in {MaxSeq(a)} })

\* thetas[-1][:2] -= pos
Shifted(theta, pos) ==
    AsSeq([i \in 1..Len(theta) |-> IF i <= 2 THEN theta[i] - pos[i] ELSE theta[i]])

\* x + np.log(w)
AddLog(x, lw) ==
    Only({ IF y = NaN \/ w = NaN THEN NaN
           ELSE IF y = PosInf THEN (IF w = NegInf THEN NaN ELSE PosInf)
           ELSE IF y = NegInf \/ w = NegInf THEN NegInf
           ELSE y + w : y \in {x}, w \in {lw} })

\* The same loop without the deep copy: every entry of thetas is theta itself,
\* shifted in place by one position after the other.
GaussianMixThetasInPlace(l, theta) ==
    LET shift[i \in 0..Len(l.positions)] ==
            IF i = 0 THEN theta ELSE Shifted(shift[i - 1], l.positions[i])
        final == shift[Len(l.positions)]
    IN  [thetas |-> AsSeq([i \in 1..Len(l.positions) |-> final]), theta |-> final]

\* The loop of GaussianMix.__call__ over self.positions: each shifted vector is
\* a deep copy, so the caller's theta is as it was when the call returns.
GaussianMixThetas(l, theta) ==
    [thetas |-> AsSeq([i \in 1..Len(l.positions) |-> Shifted(theta, l.positions[i])]),
     theta |-> theta]

\* GaussianMix.__call__, the value.  The in-place subtraction of a 2-vector
\* from theta[:2] cannot broadcast when theta has fewer than two components.
GaussianMixCall(l, theta) ==
    IF Len(theta) < 2 THEN Raise("ValueError")
    ELSE LET thetas == GaussianMixThetas(l, theta).thetas
             logls == AsSeq([i \in 1..Len(l.weights) |->
                               AddLog(log_gaussian_pdf(thetas[i], l.sigmas[i]),
                                      Milli(Ln8(l.weights[i], 6)))])
         IN  Ok(logsumexp(logls))

\* self(x): the __call__ of the instance's class.
Call(l, x) ==
    CASE l.kind = "Likelihood" -> Raise("NotImplementedError")
      [] l.kind = "Rosenbrock" -> RosenbrockCall(x)
      [] l.kind = "Himmelblau" -> HimmelblauCall(x)
      [] l.kind = "Gaussian" -> GaussianCall(l, x)
      [] l.kind = "Eggbox" -> EggboxCall(x)
      [] l.kind = "GaussianShell" -> GaussianShellCall(l, x)
      [] l.kind = "GaussianMix" -> GaussianMixCall(l, x)

\* The array the caller passed to self(x), after the call.
ArgAfterCall(l, x) ==
    IF l.kind = "GaussianMix" /\ Len(x) >= 2 THEN GaussianMixThetas(l, x).theta ELSE x

\* np.argmax(w): the first index of the largest element.
ArgMax(w) == CHOOSE i \in 1..Len(w) :
    /\ \A j \in 1..Len(w) : w[j] <= w[i]
    /\ \A j \in 1..(i - 1) : w[j] < w[i]

\* The point each max_loglike property evaluates.
MaxLocation(l) ==
    CASE l.kind = "Rosenbrock" -> Repeat(Scale, l.x_dim)
      [] l.kind = "Himmelblau" -> <<3 * Scale, 2 * Scale>>
      [] l.kind = "Gaussian" -> Repeat(0, l.x_dim)
      [] l.kind = "Eggbox" -> Repeat(0, l.x_dim)
      [] l.kind = "GaussianShell" -> <<l.rshell>> \o Repeat(0, l.x_dim - 1)
      [] l.kind = "GaussianMix" -> l.positions[ArgMax(l.weights)]

\* self.max_loglike: a property of every concrete class, a plain method of the
\* base class, whose attribute is the bound method.
MaxLoglike(l) ==
    IF l.kind = "Likelihood" THEN BoundMethod ELSE Call(l, MaxLocation(l))

\* The instance after self.max_loglike: GaussianMix passes its own position
\* array to __call__.
LikAfterMaxLoglike(l) ==
    IF l.kind = "GaussianMix"
       THEN [l EXCEPT !.positions[ArgMax(l.weights)] = ArgAfterCall(l, @)]
       ELSE l

Range(lo, hi) == [err |-> "none", shape |-> "pair", low |-> lo, high |-> hi]

\* self.sample_range
SampleRange(l) ==
    CASE l.kind = "Likelihood" -> [err |-> "none", shape |-> "method", low |-> <<>>, high |-> <<>>]
      [] l.kind = "Rosenbrock" -> Range(Repeat(-2 * Scale, l.x_dim), Repeat(12 * Scale, l.x_dim))
      [] l.kind = "Himmelblau" -> Range(Repeat(-5 * Scale, l.x_dim), Repeat(5 * Scale, l.x_dim))
      [] l.kind = "Gaussian" -> Range(Repeat(-5 * Scale, l.x_dim), Repeat(5 * Scale, l.x_dim))
      [] l.kind = "Eggbox" -> Range(Repeat(-15 * Scale, l.x_dim), Repeat(15 * Scale, l.x_dim))
      [] l.kind = "GaussianShell" ->
            Range(Repeat(-l.rshell - 5 * l.sigma, l.x_dim), Repeat(l.rshell + 5 * l.sigma, l.x_dim))
      [] l.kind = "GaussianMix" ->
            Range(Repeat(-l.sep - 5 * l.sigma, l.x_dim), Repeat(l.sep + 5 * l.sigma, l.x_dim))

----------------------------------------------------------------------------
(* Likelihood.loglike.  Its argument is a list or an array; `nested` says   *)
(* whether the caller passes a batch (rows) or one vector (rows[1]).        *)

\* len(np.array(x).shape): an empty list is a 1-dimensional array of length 0,
\* an array of N rows is N-by-x_dim also for N = 0.
NDim(x) ==
    IF ~x.nested THEN 1
    ELSE IF x.form = "list" /\ x.rows = <<>> THEN 1
    ELSE 2

\* The vector the 1-dimensional branch hands to self.
Vector(x) == IF x.nested THEN <<>> ELSE x.rows[1]

\* np.array([self(x) for x in x]): the first row that raises ends the call.
MapCall(l, rows) ==
    Only({ LET bad == {i \in 1..Len(rows) : res[i].err # "none"}
           IN  IF bad # {} THEN res[CHOOSE i \in bad : \A j \in bad : i <= j]
               ELSE OkArray(AsSeq([i \in 1..Len(rows) |-> res[i].val])) :
           res \in {AsSeq([i \in 1..Len(rows) |-> Call(l, rows[i])])} })

\* Likelihood.loglike
loglike(l, x) == IF NDim(x) > 1 THEN MapCall(l, x.rows) ELSE Call(l, Vector(x))

\* The rows of x after loglike.
RowsAfterLoglike(l, x) == AsSeq([i \in 1..Len(x.rows) |-> ArgAfterCall(l, x.rows[i])])

----------------------------------------------------------------------------
(* Constructors.                                                            *)

\* Likelihood.__init__, reached through super() by the parametrised classes.
LikelihoodInit(kind, x_dim) == [NoInstance EXCEPT !.kind = kind, !.x_dim = x_dim]

\* Himmelblau and Eggbox: __init__ does nothing, x_dim = 2 is a class attribute.
FixedInit(kind) == [NoInstance EXCEPT !.kind = kind, !.x_dim = 2]

\* Gaussian.__init__
GaussianInit(x_dim, corr) == [LikelihoodInit("Gaussian", x_dim) EXCEPT !.corr = corr]

\* GaussianShell.__init__
GaussianShellInit(x_dim, sigma, rshell) ==
    [LikelihoodInit("GaussianShell", x_dim) EXCEPT !.sigma = sigma, !.rshell = rshell]

\* np.isclose(a, b) with rtol = 1e-5 and atol = 1e-8, a and b in millionths:
\* |a - b| <= atol + rtol * |b|.
IsClose(a, b) == Abs(a - b) <= (1000 + Abs(b)) \div (10 ^ 5)

\* The first assertion alone.
WeightsLengthOnly(weights) == Len(weights) \in {2, 3, 4}

\* The two assertions of GaussianMix.__init__.
WeightsAccepted(weights) ==
    /\ Len(weights) \in {2, 3, 4}
    /\ IsClose(SumSeq(weights), WScale)

\* self.weights = weights
StoredWeights(weights) == weights

\* GaussianMix.__init__ past its assertions.
GaussianMixInit(x_dim, sep, weights, sigma) ==
    [LikelihoodInit("GaussianMix", x_dim) EXCEPT
        !.sep = sep,
        !.weights = StoredWeights(weights),
        !.sigma = sigma,
        !.sigmas = Repeat(sigma, Len(weights)),
        !.positions = SubSeq(<< <<0, sep>>, <<0, -sep>>, <<sep, 0>>, <<-sep, 0>> >>,
                             1, Len(weights))]

----------------------------------------------------------------------------
(* The accumulated samples and a batch of candidates are sequences of rows. *)
(* Equal neighbouring rows are kept as one run [p, n] of n rows.            *)

\* The number of rows.
Count(runs) == SumSeq([i \in 1..Len(runs) |-> runs[i].n])

\* np.vstack((a, b))
VStack(a, b) ==
    Only({ IF x = <<>> THEN y
           ELSE IF y = <<>> THEN x
           ELSE IF x[Len(x)].p = y[1].p
                THEN SubSeq(x, 1, Len(x) - 1)
                        \o <<[p |-> y[1].p, n |-> x[Len(x)].n + y[1].n]>> \o Tail(y)
                ELSE x \o y : x \in {a}, y \in {b} })

\* samples[0:k]
Take(runs, k) ==
    LET before(i) == Count(SubSeq(runs, 1, i - 1))
        kept == SelectSeq([i \in 1..Len(runs) |->
                             [p |-> runs[i].p,
                              n |-> IF before(i) + runs[i].n <= k THEN runs[i].n
                                    ELSE k - before(i)]],
                          LAMBDA g : g.n > 0)
    IN  kept

\* The points of the rows.
RowPoints(runs) == {runs[i].p : i \in 1..Len(runs)}

----------------------------------------------------------------------------
(* Bounds of the model and the inputs drawn within them.                    *)

MaxDim == 3
MaxNumSamples == 2
MaxBatchRows == 2
HeadCount == 1

\* size=(1000, self.x_dim)
BatchSize == 1000

Dims == 1..MaxDim

Corrs == {0, 500, 1000}

\* <<sigma, rshell>>; the first is the default.
ShellShapes == {<<100, 2000>>, <<1000, 2000>>, <<100, -3000>>, <<0, 2000>>, <<0, -3000>>}

\* <<sep, sigma>>; the first is the default.
MixShapes == {<<4000, 1000>>, <<1000, 1000>>, <<4000, 100>>, <<4000, -1000>>, <<4000, 0>>}

\* Weight sequences in millionths; the first is the default.
WeightChoices ==
    { <<400000, 300000, 200000, 100000>>,
      <<500000, 500000>>,
      <<500000, 400000>>,
      <<500000, 300000, 200000>>,
      <<200000, 200000, 200000, 200000, 200000>>,
      <<1000000>>,
      <<1500000, -500000>>,
      <<1000000, 0>>,
      <<499995, 500000>>,
      <<499980, 500000>> }

Coords == {-2000, 0, 1000, 4000}

\* The vectors evaluate is called on.
EvalPoints(d) ==
    {AsSeq([i \in 1..d |-> IF i = 1 THEN a ELSE IF i = 2 THEN b ELSE c]) : a, b, c \in Coords}

\* The coordinates the candidates of a variant are made of: those of the
\* point of its maximum and one more.
SampleCoords(l) ==
    CASE l.kind = "Rosenbrock" -> {-2000, 1000}
      [] l.kind = "Himmelblau" -> {2000, 3000}
      [] l.kind = "Gaussian" -> {0, 1000}
      [] l.kind = "Eggbox" -> {0, 3000}
      [] l.kind = "GaussianShell" -> {0, l.rshell}
      [] l.kind = "GaussianMix" -> {0, l.sep}
      [] OTHER -> {0, 1000}

CandidatePoints(l) ==
    {AsSeq([i \in 1..l.x_dim |-> IF i = 1 THEN a ELSE b]) : a, b \in SampleCoords(l)}

\* Uniform draws in [0, 1).
RDraws == {0, 999}

\* A value np.random.uniform(low, high) can return: low <= v < high, or low
\* when the interval is empty.  For low > high numpy leaves the result
\* undefined; what it then computes, low + (high - low) * u, lies in (high, low].
InUniform(lo, hi, v) ==
    IF lo < hi THEN lo <= v /\ v < hi
    ELSE IF lo = hi THEN v = lo
    ELSE hi < v /\ v <= lo

DrawPoints(l, lo, hi) ==
    {p \in CandidatePoints(l) : \A i \in 1..Len(p) : InUniform(lo[i], hi[i], p[i])}

\* The arguments of loglike.
LoglikeArgs(l) ==
    LET pts == CandidatePoints(l)
        seqs == {AsSeq(r) : r \in UNION {[1..n -> pts] : n \in 0..MaxBatchRows}}
    IN  {[form |-> f, nested |-> TRUE, rows |-> r] : f \in {"list", "array"}, r \in seqs}
        \cup {[form |-> f, nested |-> FALSE, rows |-> <<q>>] : f \in {"list", "array"}, q \in pts}

----------------------------------------------------------------------------
(* The state: one instance and its caller, which constructs it and then     *)
(* makes one call after another.                                            *)

VARIABLES
    lik,          \* the instance's attributes; NoInstance before construction
    pc,           \* "idle", "done"; inside sample "loop", "drawn", "scored", "tested"
    arg,          \* the argument of the call, as the caller passed it
    buf,          \* the same object once the call has returned
    ret,          \* what the call returned or raised
    num_samples,  \* sample's parameter
    max_loglike,  \* sample's locals (lines 22-24) ...
    low,
    high,
    samples,
    batch,        \* ... x, loglike, ratio and r of the iteration (lines 26-29)
    drawn         \* the number of candidates the last iteration drew

vars == <<lik, pc, arg, buf, ret, num_samples, max_loglike, low, high, samples,
          batch, drawn>>

locals == <<num_samples, max_loglike, low, high, samples, batch, drawn>>

NoRet ==
    [op |-> "none", err |-> "none", shape |-> "none", val |-> 0, vals |-> <<>>,
     low |-> <<>>, high |-> <<>>, rows |-> <<>>]

\* The outcome r of operation op.
Ret(op, r) ==
    [NoRet EXCEPT !.op = op, !.err = r.err, !.shape = r.shape, !.val = r.val, !.vals = r.vals]

NoLocals ==
    /\ num_samples' = 0
    /\ max_loglike' = 0
    /\ low' = <<>>
    /\ high' = <<>>
    /\ samples' = <<>>
    /\ batch' = <<>>
    /\ drawn' = 0

Init ==
    /\ lik = NoInstance
    /\ pc = "idle"
    /\ arg = <<>>
    /\ buf = <<>>
    /\ ret = NoRet
    /\ num_samples = 0
    /\ max_loglike = 0
    /\ low = <<>>
    /\ high = <<>>
    /\ samples = <<>>
    /\ batch = <<>>
    /\ drawn = 0

\* A constructor call that returns instance l.
Unbuilt == pc = "idle" /\ lik = NoInstance

Constructed(l) ==
    /\ lik' = l
    /\ pc' = "done"
    /\ ret' = Ret(l.kind \o ".__init__", Ok(0))
    /\ UNCHANGED locals

NewLikelihood ==
    /\ Unbuilt
    /\ \E d \in Dims :
        /\ Constructed(LikelihoodInit("Likelihood", d))
        /\ arg' = <<>> /\ buf' = <<>>

NewRosenbrock ==
    /\ Unbuilt
    /\ \E d \in Dims :
        /\ Constructed(LikelihoodInit("Rosenbrock", d))
        /\ arg' = <<>> /\ buf' = <<>>

NewHimmelblau ==
    /\ Unbuilt
    /\ Constructed(FixedInit("Himmelblau"))
    /\ arg' = <<>> /\ buf' = <<>>

NewGaussian ==
    /\ Unbuilt
    /\ \E d \in Dims, c \in Corrs :
        /\ Constructed(GaussianInit(d, c))
        /\ arg' = <<>> /\ buf' = <<>>

NewEggbox ==
    /\ Unbuilt
    /\ Constructed(FixedInit("Eggbox"))
    /\ arg' = <<>> /\ buf' = <<>>

NewGaussianShell ==
    /\ Unbuilt
    /\ \E d \in Dims, sh \in ShellShapes :
        /\ Constructed(GaussianShellInit(d, sh[1], sh[2]))
        /\ arg' = <<>> /\ buf' = <<>>

\* GaussianMix(x_dim, sep, weights, sigma): a failed assertion leaves no instance.
NewGaussianMix ==
    /\ Unbuilt
    /\ \E d \in Dims, sh \in MixShapes, w \in WeightChoices :
        /\ arg' = w /\ buf' = w
        /\ IF WeightsAccepted(w)
              THEN Constructed(GaussianMixInit(d, sh[1], w, sh[2]))
              ELSE /\ lik' = lik
                   /\ pc' = "done"
                   /\ ret' = Ret("GaussianMix.__init__", Raise("AssertionError"))
                   /\ UNCHANGED locals

\* The caller is done with a result and goes on to its next call.
Discard ==
    /\ pc = "done"
    /\ pc' = "idle"
    /\ arg' = <<>> /\ buf' = <<>>
    /\ ret' = NoRet
    /\ NoLocals
    /\ UNCHANGED lik

Ready == pc = "idle" /\ lik # NoInstance

\* self(x)
Evaluate ==
    /\ Ready
    /\ \E x \in EvalPoints(lik.x_dim) :
        /\ arg' = x
        /\ buf' = ArgAfterCall(lik, x)
        /\ ret' = Ret("call", Call(lik, x))
        /\ pc' = "done"
        /\ UNCHANGED <<lik, locals>>

\* self.loglike(x): a list is converted to a new array, an array is read in
\* place.
EvaluateBatch ==
    /\ Ready
    /\ \E x \in LoglikeArgs(lik) :
        /\ arg' = x
        /\ buf' = IF x.form = "array" /\ (NDim(x) > 1 \/ ~x.nested)
                     THEN [x EXCEPT !.rows = RowsAfterLoglike(lik, x)]
                     ELSE x
        /\ ret' = Ret("loglike", loglike(lik, x))
        /\ pc' = "done"
        /\ UNCHANGED <<lik, locals>>

\* self.max_loglike
GetMaxLoglike ==
    /\ Ready
    /\ ret' = Ret("max_loglike", MaxLoglike(lik))
    /\ lik' = IF MaxLoglike(lik).err = "none" THEN LikAfterMaxLoglike(lik) ELSE lik
    /\ pc' = "done"
    /\ arg' = <<>> /\ buf' = <<>>
    /\ UNCHANGED locals

\* self.sample_range
GetSampleRange ==
    /\ Ready
    /\ LET r == SampleRange(lik)
       IN  ret' = [NoRet EXCEPT !.op = "sample_range", !.shape = r.shape,
                                !.low = r.low, !.high = r.high]
    /\ pc' = "done"
    /\ arg' = <<>> /\ buf' = <<>>
    /\ UNCHANGED <<lik, locals>>

\* sample raises e: the frame is gone, the instance stays.
SampleRaises(e) ==
    /\ pc' = "done"
    /\ ret' = Ret("sample", Raise(e))

\* sample(num_samples), lines 22-24: max_loglike is read, sample_range is
\* unpacked (a bound method cannot be), samples starts empty.
SampleBegin ==
    /\ Ready
    /\ \E n \in 0..MaxNumSamples :
        /\ arg' = <<>> /\ buf' = <<>>
        /\ LET m == MaxLoglike(lik)
               l2 == IF m.err = "none" THEN LikAfterMaxLoglike(lik) ELSE lik
               r == SampleRange(l2)
           IN  /\ lik' = l2
               /\ IF m.err # "none"
                     THEN SampleRaises(m.err) /\ NoLocals
                  ELSE IF r.shape # "pair"
                     THEN SampleRaises("TypeError") /\ NoLocals
                  ELSE /\ pc' = "loop"
                       /\ ret' = NoRet
                       /\ num_samples' = n
                       /\ max_loglike' = m.val
                       /\ low' = r.low
                       /\ high' = r.high
                       /\ samples' = <<>>
                       /\ batch' = <<>>
                       /\ drawn' = 0

\* a - b on floats
FloatSub(a, b) ==
    Only({ IF x = NaN \/ y = NaN THEN NaN
           ELSE IF x \in {PosInf, NegInf} THEN (IF y = x THEN NaN ELSE x)
           ELSE IF y = PosInf THEN NegInf
           ELSE IF y = NegInf THEN PosInf
           ELSE x - y : x \in {a}, y \in {b} })

\* np.exp on floats
ExpFloat(x) ==
    Only({ IF y = NaN THEN Float(NaN, 0)
           ELSE IF y = NegInf THEN Float(0, 0)
           ELSE IF y = PosInf THEN Float(PosInf, 0)
           ELSE ExpFix(y) : y \in {x} })

\* ratio = np.exp(loglike - max_loglike)
Ratio(ll, m) == ExpFloat(FloatSub(ll, m))

\* ratio >= r
AcceptsOrEqual(ratio, r) == ratio.m # NaN /\ (ratio.e > 0 \/ ratio.m >= r)

\* ratio > r: a comparison with nan is false.
Accepts(ratio, r) == ratio.m # NaN /\ (ratio.e > 0 \/ ratio.m > r)

\* len(samples) <= num_samples
MoreNeededInclusive == Count(samples) <= num_samples

\* The loop test of line 25.
MoreNeeded == Count(samples) < num_samples

\* Whether some bound pair is one numpy's uniform leaves undefined.
Inverted == \E i \in 1..Len(low) : low[i] > high[i]

\* Line 26: the 1000 candidates, HeadCount rows of one point and the rest of
\* another.
SampleDraw ==
    /\ pc = "loop"
    /\ MoreNeeded
    /\ \E p1, p2 \in DrawPoints(lik, low, high) :
          batch' = <<[p |-> p1, n |-> HeadCount], [p |-> p2, n |-> BatchSize - HeadCount]>>
    /\ drawn' = BatchSize
    /\ pc' = "drawn"
    /\ UNCHANGED <<lik, arg, buf, ret, num_samples, max_loglike, low, high, samples>>

\* Lines 27-28: one loglike call on the batch, whose first failing row ends
\* sample; the ratios.
SampleLoglike ==
    /\ pc = "drawn"
    /\ LET x == [form |-> "array", nested |-> TRUE,
                 rows |-> AsSeq([i \in 1..Len(batch) |-> batch[i].p])]
       IN  \E ll \in {loglike(lik, x)}, after \in {RowsAfterLoglike(lik, x)} :
              IF ll.err # "none"
                 THEN /\ SampleRaises(ll.err)
                      /\ batch' = <<>>
                 ELSE /\ pc' = "scored"
                      /\ ret' = ret
                      /\ batch' = AsSeq([i \in 1..Len(batch) |->
                                           [p |-> after[i], n |-> batch[i].n,
                                            ll |-> ll.vals[i],
                                            ratio |-> Ratio(ll.vals[i], max_loglike)]])
    /\ UNCHANGED <<lik, arg, buf, num_samples, max_loglike, low, high, samples, drawn>>

\* Line 29: one uniform draw per row.
SampleUniform ==
    /\ pc = "scored"
    /\ \E r1, r2 \in RDraws :
          LET r == <<r1, r2>>
          IN  batch' = AsSeq([i \in 1..Len(batch) |->
                                [p |-> batch[i].p, n |-> batch[i].n, ll |-> batch[i].ll,
                                 ratio |-> batch[i].ratio, r |-> r[i]]])
    /\ pc' = "tested"
    /\ UNCHANGED <<lik, arg, buf, ret, num_samples, max_loglike, low, high, samples, drawn>>

\* np.random.uniform with low > high is undefined: it may also raise.
SampleDrawUndefined ==
    /\ pc = "loop"
    /\ MoreNeeded
    /\ Inverted
    /\ SampleRaises("ValueError")
    /\ UNCHANGED <<lik, arg, buf, num_samples, max_loglike, low, high, samples, batch, drawn>>

\* x[np.where(ratio > r)]
Accepted(b) ==
    LET keep == SelectSeq(b, LAMBDA g : Accepts(g.ratio, g.r))
    IN  AsSeq([i \in 1..Len(keep) |-> [p |-> keep[i].p, n |-> keep[i].n]])

\* Line 30: the accepted rows go in front of the accumulated ones.
SampleAccept ==
    /\ pc = "tested"
    /\ samples' = VStack(VStack(<<>>, Accepted(batch)), samples)
    /\ batch' = <<>>
    /\ pc' = "loop"
    /\ UNCHANGED <<lik, arg, buf, ret, num_samples, max_loglike, low, high, drawn>>

\* Line 31, once the loop test fails.
SampleReturn ==
    /\ pc = "loop"
    /\ ~MoreNeeded
    /\ pc' = "done"
    /\ ret' = [NoRet EXCEPT !.op = "sample", !.shape = "rows",
                            !.rows = Take(samples, num_samples)]
    /\ UNCHANGED <<lik, arg, buf, num_samples, max_loglike, low, high, samples, batch, drawn>>

Next ==
    \/ NewLikelihood
    \/ NewRosenbrock
    \/ NewHimmelblau
    \/ NewGaussian
    \/ NewEggbox
    \/ NewGaussianShell
    \/ NewGaussianMix
    \/ Discard
    \/ Evaluate
    \/ EvaluateBatch
    \/ GetMaxLoglike
    \/ GetSampleRange
    \/ SampleBegin
    \/ SampleDraw
    \/ SampleDrawUndefined
    \/ SampleLoglike
    \/ SampleUniform
    \/ SampleAccept
    \/ SampleReturn

Spec == Init /\ [][Next]_vars

\* sample() under the scheduling the rejection sampler relies on: a started
\* step completes, and batches holding a candidate of positive ratio, and
\* uniform draws below such a ratio, occur again and again.
AcceptableDraw ==
    /\ SampleDraw
    /\ \E i \in 1..Len(batch') :
          /\ Call(lik, batch'[i].p).err = "none"
          /\ Accepts(Ratio(Call(lik, batch'[i].p).val, max_loglike), 0)

AcceptingUniform == SampleUniform /\ Accepted(batch') # <<>>

FairSpec ==
    /\ Init
    /\ [][Next]_vars
    /\ WF_vars(SampleLoglike)
    /\ WF_vars(SampleUniform)
    /\ WF_vars(SampleAccept)
    /\ WF_vars(SampleReturn)
    /\ SF_vars(AcceptableDraw)
    /\ SF_vars(AcceptingUniform)

----------------------------------------------------------------------------
(* The claims.                                                              *)

Returned(op) == pc = "done" /\ ret.op = op /\ ret.err = "none"

\* low <= p <= high, componentwise
InBox(p, lo, hi) ==
    /\ Len(p) = Len(lo)
    /\ Len(p) = Len(hi)
    /\ \A i \in 1..Len(p) : lo[i] <= p[i] /\ p[i] <= hi[i]

\* C1: when sample(numSamples) returns, its result has exactly numSamples rows
\* and every row lies inside the box sample_range, low <= value <= high.
C1_SampleRowsInBox ==
    Returned("sample") =>
        /\ Count(ret.rows) = num_samples
        /\ \A p \in RowPoints(ret.rows) : InBox(p, low, high)

\* C2: loglike of a batch of N points, N >= 0, passed as an array or as a list,
\* is the sequence of the N single-point evaluations (the error of the first
\* point that raises, if one does); for N = 0 it is the empty sequence.  Stated
\* for the concrete variants.
C2_BatchIsMap ==
    (pc = "done" /\ ret.op = "loglike" /\ arg.nested /\ lik.kind # "Likelihood") =>
        LET single == [i \in 1..Len(arg.rows) |-> Call(lik, arg.rows[i])]
            bad == {i \in 1..Len(arg.rows) : single[i].err # "none"}
        IN  IF bad = {}
               THEN /\ ret.err = "none"
                    /\ ret.shape = "array"
                    /\ Len(ret.vals) = Len(arg.rows)
                    /\ \A i \in 1..Len(arg.rows) : ret.vals[i] = single[i].val
               ELSE \E i \in bad : (\A j \in bad : i <= j) /\ ret.err = single[i].err

\* C3: on the base Likelihood every use of evaluate, loglike, max_loglike,
\* sample_range and sample ends in NotImplementedError (loglike: of one point
\* or more).
C3_AbstractRaises ==
    (pc = "done" /\ lik.kind = "Likelihood"
        /\ ret.op \in {"call", "loglike", "max_loglike", "sample_range", "sample"}
        /\ (ret.op = "loglike" => arg.rows # <<>>))
    => ret.err = "NotImplementedError"

\* The number w (in millionths) is 1 within the tolerance 1e-8 + 1e-5.
NearOne(w) == w >= WScale - 10 /\ w <= WScale + 10

\* C4: GaussianMix construction raises and leaves no instance exactly when the
\* weights are not 2, 3 or 4 in number or do not sum to 1 within tolerance;
\* otherwise it succeeds, and the instance holds the weights as they were given.
C4_MixValidation ==
    (pc = "done" /\ ret.op = "GaussianMix.__init__") =>
        IF Len(arg) \in 2..4 /\ NearOne(SumSeq(arg))
           THEN ret.err = "none" /\ lik.kind = "GaussianMix" /\ lik.weights = arg
           ELSE ret.err = "AssertionError" /\ lik = NoInstance

\* A construction refused for the sum, one accepted within the tolerance.
C4_Witness ==
    /\ pc = "done"
    /\ ret.op = "GaussianMix.__init__"
    /\ \/ arg = <<500000, 400000>> /\ ret.err = "AssertionError"
       \/ arg = <<499995, 500000>> /\ ret.err = "none"

\* C5: max_loglike bounds the log-density over the sampling box: evaluate(p) <=
\* max_loglike for every p inside sample_range, and the ratio of every
\* candidate sample() draws is at most 1.
C5_MaxBoundsBox ==
    /\ (Returned("call") /\ ret.shape = "scalar" /\ ret.val # NaN
          /\ SampleRange(lik).shape = "pair"
          /\ InBox(arg, SampleRange(lik).low, SampleRange(lik).high)
          /\ MaxLoglike(lik).shape = "scalar" /\ MaxLoglike(lik).val # NaN)
       => ret.val <= MaxLoglike(lik).val
    /\ pc = "scored" =>
          \A i \in 1..Len(batch) :
              batch[i].ratio.m # NaN => (batch[i].ratio.e = 0 /\ batch[i].ratio.m <= Scale)

\* C6: the weights of every constructed GaussianMix are 2 to 4 in number, each
\* positive, and sum to 1 within tolerance.
C6_WeightsPositive ==
    lik.kind = "GaussianMix" =>
        /\ Len(lik.weights) \in 2..4
        /\ \A i \in 1..Len(lik.weights) : lik.weights[i] > 0
        /\ NearOne(SumSeq(lik.weights))

\* C7: sample_range of every constructed variant is two sequences of length
\* x_dim, the lower bound componentwise <= the upper bound.
C7_RangeOrdered ==
    (Returned("sample_range") /\ lik.kind # "Likelihood") =>
        /\ Len(ret.low) = lik.x_dim
        /\ Len(ret.high) = lik.x_dim
        /\ \A i \in 1..lik.x_dim : ret.low[i] <= ret.high[i]

\* The groups of a batch whose ratio is strictly greater than their draw.
C8_Kept(b) ==
    SelectSeq(b, LAMBDA g : g.ratio.m # NaN /\ (g.ratio.e > 0 \/ g.ratio.m > g.r))

\* loglike >= max_loglike as floats compare: false when either is nan.
C8_AtLeastMax(g) == g.ll # NaN /\ max_loglike # NaN /\ g.ll >= max_loglike

\* loglike and max_loglike are the same infinity: their difference is nan.
C8_SameInfinity(g) == g.ll = max_loglike /\ g.ll \in {PosInf, NegInf}

\* The state part of C8; `always` says when a candidate whose loglike is >=
\* max_loglike has to be among the accepted ones.
C8_Batch(always(_)) ==
    /\ pc \in {"drawn", "scored", "tested"} =>
          /\ Count(batch) = 1000
          /\ drawn = 1000
    /\ pc = "tested" =>
          /\ \A i \in 1..Len(batch) :
                LET g == batch[i]
                    kept == \E j \in 1..Len(C8_Kept(batch)) : C8_Kept(batch)[j] = g
                IN  /\ (C8_AtLeastMax(g) /\ always(g)) => kept
                    /\ g.ratio = Float(0, 0) => ~kept
                    /\ g.ratio.m = NaN => ~kept
                    /\ C8_SameInfinity(g) => g.ratio.m = NaN
                    /\ g.r >= 0 /\ g.r < Scale
    /\ Returned("sample") =>
          /\ Count(samples) >= num_samples
          /\ Count(samples) <= num_samples + 999
          /\ num_samples = 0 => drawn = 0 /\ samples = <<>>

C8_State == C8_Batch(LAMBDA g : ~C8_SameInfinity(g))

C8_OriginalState == C8_Batch(LAMBDA g : TRUE)

C8_Step ==
    /\ pc = "tested" =>
          LET kept == C8_Kept(batch)
              k == Count(kept)
          IN  /\ pc' = "loop"
              /\ Count(samples') = Count(samples) + k
              /\ Take(samples', k) =
                    VStack(<<>>, AsSeq([i \in 1..Len(kept) |-> [p |-> kept[i].p, n |-> kept[i].n]]))
              /\ \A p \in RowPoints(samples) : p \in RowPoints(samples')
    /\ pc = "loop" =>
          IF Count(samples) < num_samples
             THEN /\ samples' = samples
                  /\ \/ pc' = "drawn" /\ drawn' = 1000 /\ Count(batch') = 1000
                     \/ pc' = "done" /\ ret'.err # "none"
             ELSE pc' = "done" /\ ret'.err = "none" /\ ret'.op = "sample" /\ drawn' = drawn

\* C8 as amended: every iteration of sample() draws exactly 1000 candidates
\* and adds a candidate iff its ratio is strictly greater than its uniform draw
\* in [0, 1): always when loglike >= max_loglike, unless the two are the same
\* infinity, when the ratio is nan and the candidate is never added; never when
\* the ratio is 0; the loop iterates again exactly when fewer than numSamples
\* rows are accumulated, so it ends with numSamples to numSamples + 999 rows,
\* and draws nothing for 0.
C8_RejectionLoop == []C8_State /\ [][C8_Step]_vars

\* C8 as stated: as above, but a candidate whose loglike is >= max_loglike is
\* always accepted.
C8_Original == []C8_OriginalState /\ [][C8_Step]_vars

\* An exit with numSamples + 999 rows, a first batch having accepted one row.
C8_Witness ==
    /\ Returned("sample")
    /\ num_samples = 2
    /\ Count(samples) = num_samples + 999
    /\ Len(samples) = 2

\* Some candidate the box offers can be accepted.
CanAccept ==
    \E p \in DrawPoints(lik, low, high), r \in RDraws :
        /\ Call(lik, p).err = "none"
        /\ Accepts(Ratio(Call(lik, p).val, max_loglike), r)

C9_RejectingStep ==
    (pc = "tested" /\ Accepted(batch) = <<>>) =>
        /\ pc' = "loop"
        /\ samples' = samples
        /\ ret' = ret
        /\ ret.err = "none"
        /\ num_samples' = num_samples
        /\ num_samples > Count(samples')

\* C9: sample() has no iteration cap: an iteration that accepts nothing leaves
\* the loop where it was, without an error, so the loop can run forever; it
\* returns (or raises) once batches that accept a candidate keep occurring, and
\* for numSamples = 0 it always returns.
C9_Termination ==
    /\ ((pc = "loop" /\ (Count(samples) >= num_samples \/ CanAccept)) ~> pc = "done")
    /\ [][C9_RejectingStep]_vars

\* An iteration for numSamples >= 1 in which every candidate was rejected.
C9_Witness ==
    /\ pc = "tested"
    /\ num_samples >= 1
    /\ Accepted(batch) = <<>>
    /\ CanAccept

C10_State ==
    /\ pc = "done" => buf = arg
    /\ (Returned("call") /\ ret.shape = "scalar") =>
          /\ Call(lik, buf).err = "none"
          /\ Call(lik, buf).val = ret.val

C10_Step == lik # NoInstance => lik' = lik

\* C10: no call changes an attribute of the instance or the caller's input
\* (GaussianMix shifts copies of theta), so evaluating the same point on the
\* same instance again returns the identical result.
C10_Frame == []C10_State /\ [][C10_Step]_vars

\* A GaussianMix of three components has evaluated a point.
C10_Witness ==
    /\ lik.kind = "GaussianMix"
    /\ Len(lik.positions) = 3
    /\ Returned("call")
    /\ ret.shape = "scalar"
    /\ arg = <<1000, 4000>>

====
